---- MODULE Spec2Model ----
(***************************************************************************)
(* A model of gdutils.extract.ExtractTable (src/gdutils/extract.py): the   *)
(* constructor, the attribute setters (infile, outfile, column, value),    *)
(* extract(), extract_to_file(), list_columns(), list_values() and the     *)
(* command-line script main().                                             *)
(*                                                                         *)
(* Python's None is the empty sequence <<>> and a present value x is       *)
(* <<x>>, so that optional attributes of different shapes stay comparable. *)
(* A table is a record [index, cols, rows]: the label of the index (None   *)
(* for the default positional index), the set of column labels and the     *)
(* sequence of rows; a row is [idx, cells], its index entry and a function *)
(* from the column labels to cell values.                                  *)
(***************************************************************************)
EXTENDS Integers, Sequences, FiniteSets, TLC

\* ---------------------------------------------------------------- bounds
\* longest list of values handed to the value setter
MaxListLen == 2
\* deepest nesting of extract_to_file calls the model follows
MaxDepth == 4

\* ------------------------------------------------------------- optionals
None == <<>>
Some(x) == <<x>>
IsNone(o) == o = <<>>
Get(o) == o[1]

Range(s) == {s[i] : i \in 1..Len(s)}

\* the subsequence of s at the positions in keep, in the original order
RECURSIVE SelectAt(_, _, _)
SelectAt(s, keep, i) ==
    IF i > Len(s) THEN <<>>
    ELSE (IF i \in keep THEN <<s[i]>> ELSE <<>>) \o SelectAt(s, keep, i + 1)

\* ----------------------------------------------------------------- paths
\* a path is its directory (a sequence of names), its stem and its suffix
Path(d, s, e) == [dir |-> d, stem |-> s, ext |-> e]

\* str.lower() on the suffixes that occur
Lower(e) == CASE e = ".CSV" -> ".csv" [] e = ".ZIP" -> ".zip" [] OTHER -> e

\* __get_extension: os.path.splitext(filename)[1].lower()
GetExtension(filename) == Lower(filename.ext)

\* pathlib.Path(...).parent
Parent(p) == p.dir

\* -------------------------------------------------------- cells and rows
NullGeom == "NULL"
WktText == {"POINT (1 1)", "POINT (2 2)"}

\* shapely.wkt.loads on a well-known-text cell
WktLoads(v) == CASE v = "POINT (1 1)" -> "<POINT 1 1>"
                 [] v = "POINT (2 2)" -> "<POINT 2 2>"

\* a frame with the default index over the cell functions cs
Table(cs, rs) ==
    [index |-> None, cols |-> cs,
     rows |-> [i \in 1..Len(rs) |-> [idx |-> None, cells |-> rs[i]]]]

\* the rows of the spec's end-to-end example under "state", and a column
\* whose label is the empty string
RawA ==
    Table({"state", ""},
          << [c \in {"state", ""} |-> CASE c = "state" -> "CA" [] c = "" -> "NY"],
             [c \in {"state", ""} |-> CASE c = "state" -> "CA" [] c = "" -> "CA"],
             [c \in {"state", ""} |-> CASE c = "state" -> "NY" [] c = "" -> "TX"] >>)

\* a frame with well-known-text geometry and no "state" column
RawB ==
    Table({"name", "code", "geometry"},
          << [c \in {"name", "code", "geometry"} |->
                 CASE c = "name" -> "CA" [] c = "code" -> "CA"
                   [] c = "geometry" -> "POINT (1 1)"],
             [c \in {"name", "code", "geometry"} |->
                 CASE c = "name" -> "CA" [] c = "code" -> "TX"
                   [] c = "geometry" -> "POINT (2 2)"] >>)

\* __geometrize_gdf
GeometrizeGdf(gdf) ==
    IF "geometry" \in gdf.cols
          /\ \A i \in 1..Len(gdf.rows) :
                gdf.rows[i].cells["geometry"] \in WktText
    THEN [gdf EXCEPT !.rows =
             [i \in 1..Len(gdf.rows) |->
                 [gdf.rows[i] EXCEPT !.cells["geometry"] = WktLoads(@)]]]
    ELSE IF "geometry" \notin gdf.cols
    THEN [gdf EXCEPT
             !.cols = @ \cup {"geometry"},
             !.rows =
                 [i \in 1..Len(gdf.rows) |->
                     [gdf.rows[i] EXCEPT !.cells =
                         [c \in gdf.cols \cup {"geometry"} |->
                             IF c = "geometry" THEN NullGeom
                             ELSE gdf.rows[i].cells[c]]]]]
    ELSE gdf

\* __has_spatial_data
HasSpatialData(gdf) ==
    ~ (\A i \in 1..Len(gdf.rows) : gdf.rows[i].cells["geometry"] = NullGeom)

\* DataFrame.set_index(column): the column leaves the columns and becomes
\* the index; a label that is not a column raises KeyError
SetIndex(df, col) ==
    IF col \notin df.cols THEN [err |-> "KeyError", gdf |-> None]
    ELSE [err |-> "ok",
          gdf |-> Some([index |-> Some(col),
                        cols |-> df.cols \ {col},
                        rows |-> [i \in 1..Len(df.rows) |->
                                    [idx |-> Some(df.rows[i].cells[col]),
                                     cells |-> [c \in df.cols \ {col} |->
                                                  df.rows[i].cells[c]]]]])]

\* ------------------------------------------------------ the input files
InCsv    == Path(<<>>, "in", ".CSV")
Missing  == Path(<<>>, "missing", ".csv")
DataZip  == Path(<<>>, "data", ".ZIP")
BadZip   == Path(<<>>, "bad", ".zip")
\* the entries of DataZip, as they lie in the directory it is extracted into
ZipDeep  == Path(<<"data", "sub">>, "deep", ".csv")
ZipNotes == Path(<<"data">>, "notes", ".txt")
ZipEmpty == Path(<<"data">>, "empty", ".zip")
ZipInner == Path(<<"data">>, "inner", ".zip")
ZipCsv   == Path(<<"data">>, "later", ".csv")
ZipShp   == Path(<<"data", "inner">>, "geo", ".shp")
ZipReadme == Path(<<"data", "empty">>, "readme", ".md")
BadNotes == Path(<<"bad">>, "notes", ".txt")

\* what lies on disk under each input path: a delimited-text table, a
\* geospatial file, an archive with its entries in the order the extraction
\* directory lists them, or nothing readable
Disk(p) ==
    CASE p = InCsv    -> [kind |-> "tabular", tbl |-> Some(RawA), members |-> <<>>]
      [] p = ZipDeep  -> [kind |-> "tabular", tbl |-> Some(RawA), members |-> <<>>]
      [] p = ZipCsv   -> [kind |-> "tabular", tbl |-> Some(RawA), members |-> <<>>]
      [] p = ZipShp   -> [kind |-> "geo", tbl |-> Some(RawB), members |-> <<>>]
      [] p = DataZip  -> [kind |-> "zip", tbl |-> None,
                          members |-> <<ZipDeep, ZipNotes, ZipEmpty, ZipInner,
                                        ZipCsv>>]
      [] p = ZipEmpty -> [kind |-> "zip", tbl |-> None,
                          members |-> <<ZipReadme>>]
      [] p = ZipInner -> [kind |-> "zip", tbl |-> None,
                          members |-> <<ZipShp>>]
      [] p = BadZip   -> [kind |-> "zip", tbl |-> None,
                          members |-> <<BadNotes>>]
      [] OTHER        -> [kind |-> "absent", tbl |-> None, members |-> <<>>]

Failed == [ok |-> FALSE, name |-> None, gdf |-> None]

\* __read_inferred: the pandas reader chosen by the suffix
ReadInferred(filename, ext) ==
    IF ext \in {".csv", ".pkl", ".bz2", ".zip", ".gzip", ".xz", ".xlsx",
                ".html", ".json"}
          /\ Disk(filename).kind = "tabular"
    THEN Disk(filename).tbl
    ELSE None

\* gpd.read_file
GpdReadFile(filename) ==
    IF Disk(filename).kind = "geo" THEN Disk(filename).tbl ELSE None

\* __unzip: the archive is extracted into the directory named after it, and
\* the files lying immediately in that directory are listed
Unzip(filename) ==
    LET cwd == Append(filename.dir, filename.stem) IN
    SelectSeq(Disk(filename).members, LAMBDA m : m.dir = cwd)

\* __read_file and __read_zip: the name and frame of the file read
RECURSIVE ReadFile(_)
RECURSIVE ReadZip(_, _)
ReadFile(filename) ==
    LET ext == GetExtension(filename) IN
    IF ext # ".zip"
    THEN IF ~ IsNone(ReadInferred(filename, ext))
         THEN [ok |-> TRUE, name |-> Some(filename),
               gdf |-> Some(GeometrizeGdf(Get(ReadInferred(filename, ext))))]
         ELSE IF ~ IsNone(GpdReadFile(filename))
         THEN [ok |-> TRUE, name |-> Some(filename),
               gdf |-> Some(GeometrizeGdf(Get(GpdReadFile(filename))))]
         ELSE Failed
    ELSE ReadZip(Unzip(filename), 1)

\* a __read_zip whose loop goes on after a member has loaded
RECURSIVE ReadZipKeepsLast(_, _)
ReadZipKeepsLast(files, i) ==
    IF i > Len(files) THEN Failed
    ELSE IF ReadZipKeepsLast(files, i + 1).ok
    THEN ReadZipKeepsLast(files, i + 1)
    ELSE IF ReadFile(files[i]).ok THEN ReadFile(files[i])
    ELSE Failed

ReadZip(files, i) ==
    IF i > Len(files) THEN Failed
    ELSE IF ReadFile(files[i]).ok THEN ReadFile(files[i])
    ELSE ReadZip(files, i + 1)

\* what may be assigned to infile: nothing, a path, or a table in memory
NoOrigin == [kind |-> "none", path |-> None, tbl |-> None]
PathOrigin(p) == [kind |-> "path", path |-> Some(p), tbl |-> None]
TableOrigin(t) == [kind |-> "table", path |-> None, tbl |-> Some(t)]

Origins ==
    {NoOrigin, TableOrigin(RawA), TableOrigin(RawB)}
       \cup {PathOrigin(p) : p \in {InCsv, Missing, DataZip, BadZip}}

\* ------------------------------------------------- columns and values
ColumnNames == {"state", "", "name", "code", "geometry", "nope"}
ColumnArgs == {None} \cup {Some(c) : c \in ColumnNames}

Vals == {"CA", "TX"}
Scalar(v) == [kind |-> "scalar", v |-> <<v>>]
ListOf(l) == [kind |-> "list", v |-> l]
Lists == UNION {[1..n -> Vals] : n \in 0..MaxListLen}
ValueArgs ==
    {None} \cup {Some(Scalar(v)) : v \in Vals} \cup {Some(ListOf(l)) : l \in Lists}

\* ------------------------------------------------------- the output side
OutHere   == Path(<<>>, "result", ".xlsx")
OutNew    == Path(<<"out", "new">>, "result", ".csv")
OutLocked == Path(<<"out", "new">>, "locked", ".md")
Dests == {OutHere, OutNew, OutLocked}
OutfileArgs == {None} \cup {Some(d) : d \in Dests}
DriverArgs == {None, Some("GPKG")}

Prefixes(d) == {SubSeq(d, 1, k) : k \in 0..Len(d)}

VARIABLES
    infile,     \* __infile: None or the path the table was read from
    outfile,    \* __outfile: None or the stored destination
    column,     \* __column: None or a label
    value,      \* __value: None or a scalar or a list
    table,      \* __table: None or the loaded frame
    extracted,  \* __extracted: None or the rows the last filter selected
    dirs,       \* the directories that exist on the output side
    last        \* the last call: its name, its outcome and its writes

vars == <<infile, outfile, column, value, table, extracted, dirs, last>>

\* a call: its name, whether its argument was not None, and its outcome
\* (ret: what a listing returned; printed: the error the script printed;
\* exit: the status the script ended with)
Call(op, given, err) ==
    [op |-> op, given |-> given, err |-> err, attempts |-> 0, cause |-> "",
     wrote |-> None, ret |-> None, printed |-> None, exit |-> None]

\* __init__ with no arguments, in a working directory without sub-directories
Init ==
    /\ infile = None
    /\ outfile = None
    /\ column = None
    /\ value = None
    /\ table = None
    /\ extracted = None
    /\ dirs = {<<>>}
    /\ last = Call("init", FALSE, "ok")

\* ------------------------------------------------------------ infile
\* infile setter: the guard that rejects a second load
AlreadySet(o, cur) == o.kind # "none" /\ cur # None

\* infile setter: the new __infile and __table, and the error raised
InfileSetter(o, curInfile, curTable) ==
    IF AlreadySet(o, curInfile)
    THEN [err |-> "AlreadySet", infile |-> curInfile, table |-> curTable]
    ELSE IF o.kind # "none"
    THEN LET r == IF o.kind = "path" THEN ReadFile(Get(o.path)) ELSE Failed
         IN  IF r.ok
             THEN [err |-> "ok", infile |-> r.name, table |-> r.gdf]
             ELSE IF o.kind = "table"
             THEN [err |-> "ok", infile |-> None,
                   table |-> Some(GeometrizeGdf(Get(o.tbl)))]
             ELSE [err |-> "FileNotFound", infile |-> None, table |-> curTable]
    ELSE [err |-> "ok", infile |-> curInfile, table |-> curTable]

SetInfile(o) ==
    LET r == InfileSetter(o, infile, table) IN
    /\ infile' = r.infile
    /\ table' = r.table
    /\ last' = Call("infile", o.kind # "none", r.err)
    /\ UNCHANGED <<outfile, column, value, extracted, dirs>>

\* ----------------------------------------------------------- outfile
\* outfile setter: pathlib.Path(None) raises and the attribute becomes None
SetOutfile(f) ==
    /\ outfile' = f
    /\ last' = Call("outfile", f # None, "ok")
    /\ UNCHANGED <<infile, column, value, table, extracted, dirs>>

\* ------------------------------------------------------------ column
\* self.__table[column]: the cells of a column, or an exception
ColumnLookup(tbl, c) ==
    IF tbl = None \/ c \notin Get(tbl).cols THEN None
    ELSE Some([i \in 1..Len(Get(tbl).rows) |-> Get(tbl).rows[i].cells[c]])

\* a column setter that drops the stored value on every assignment, None
\* included
ColumnSetterAlwaysClears(c, tbl, curColumn, curValue) ==
    IF c # None
    THEN IF ColumnLookup(tbl, Get(c)) = None
         THEN [err |-> "ColumnNotFound", column |-> curColumn,
               value |-> curValue]
         ELSE [err |-> "ok", column |-> c, value |-> None]
    ELSE [err |-> "ok", column |-> curColumn, value |-> None]

\* column setter (the cells it caches in __coldata are read nowhere and are
\* not kept in the state)
ColumnSetter(c, tbl, curColumn, curValue) ==
    IF c # None
    THEN IF ColumnLookup(tbl, Get(c)) = None
         THEN [err |-> "ColumnNotFound", column |-> curColumn,
               value |-> curValue]
         ELSE [err |-> "ok", column |-> c, value |-> None]
    ELSE [err |-> "ok", column |-> curColumn, value |-> curValue]

SetColumn(c) ==
    LET r == ColumnSetter(c, table, column, value) IN
    /\ column' = r.column
    /\ value' = r.value
    /\ last' = Call("column", c # None, r.err)
    /\ UNCHANGED <<infile, outfile, table, extracted, dirs>>

\* ------------------------------------------------------------- value
\* the positions of the rows the value setter keeps: Series == value, which
\* for a list as long as the column compares position by position and for a
\* list of another length raises, and then Series.isin(value)
Selected(df, col, val) ==
    LET n == Len(df.rows)
        cell(i) == df.rows[i].cells[col]
    IN  IF val.kind = "scalar" THEN {i \in 1..n : cell(i) = val.v[1]}
        ELSE IF Len(val.v) = n THEN {i \in 1..n : cell(i) = val.v[i]}
        ELSE {i \in 1..n : cell(i) \in Range(val.v)}

\* self.__table[mask]
Rows(df, keep) == [df EXCEPT !.rows = SelectAt(df.rows, keep, 1)]

\* a value setter that stores the value before it looks at the selection
ValueSetterCommitsEarly(v, tbl, col, curValue, curExtracted) ==
    IF v # None /\ tbl = None
    THEN [err |-> "NoTable", value |-> curValue, extracted |-> curExtracted]
    ELSE IF v # None /\ col = None
    THEN [err |-> "NoColumn", value |-> curValue, extracted |-> curExtracted]
    ELSE IF v # None
    THEN IF Get(col) \notin Get(tbl).cols
         THEN [err |-> "KeyError", value |-> curValue,
               extracted |-> curExtracted]
         ELSE LET sub == Rows(Get(tbl), Selected(Get(tbl), Get(col), Get(v)))
              IN  [err |-> IF sub.rows = <<>> THEN "NoMatch" ELSE "ok",
                   value |-> v, extracted |-> Some(sub)]
    ELSE [err |-> "ok", value |-> curValue, extracted |-> curExtracted]

\* a value setter without the test for a missing column: the lookup of the
\* label None in the table raises KeyError instead
ValueSetterSkipsColumnCheck(v, tbl, col, curValue, curExtracted) ==
    IF v # None /\ tbl = None
    THEN [err |-> "NoTable", value |-> curValue, extracted |-> curExtracted]
    ELSE IF v # None
    THEN IF col = None \/ Get(col) \notin Get(tbl).cols
         THEN [err |-> "KeyError", value |-> curValue,
               extracted |-> curExtracted]
         ELSE LET sub == Rows(Get(tbl), Selected(Get(tbl), Get(col), Get(v)))
              IN  IF sub.rows = <<>>
                  THEN [err |-> "NoMatch", value |-> curValue,
                        extracted |-> Some(sub)]
                  ELSE [err |-> "ok", value |-> v, extracted |-> Some(sub)]
    ELSE [err |-> "ok", value |-> curValue, extracted |-> curExtracted]

\* value setter
ValueSetter(v, tbl, col, curValue, curExtracted) ==
    IF v # None /\ tbl = None
    THEN [err |-> "NoTable", value |-> curValue, extracted |-> curExtracted]
    ELSE IF v # None /\ col = None
    THEN [err |-> "NoColumn", value |-> curValue, extracted |-> curExtracted]
    ELSE IF v # None
    THEN IF Get(col) \notin Get(tbl).cols
         THEN [err |-> "KeyError", value |-> curValue,
               extracted |-> curExtracted]
         ELSE LET sub == Rows(Get(tbl), Selected(Get(tbl), Get(col), Get(v)))
              IN  IF sub.rows = <<>>
                  THEN [err |-> "NoMatch", value |-> curValue,
                        extracted |-> Some(sub)]
                  ELSE [err |-> "ok", value |-> v, extracted |-> Some(sub)]
    ELSE [err |-> "ok", value |-> curValue, extracted |-> curExtracted]

SetValue(v) ==
    LET r == ValueSetter(v, table, column, value, extracted) IN
    /\ value' = r.value
    /\ extracted' = r.extracted
    /\ last' = Call("value", v # None, r.err)
    /\ UNCHANGED <<infile, outfile, column, table, dirs>>

\* ----------------------------------------------------------- extract
\* bool(self.column): None and the empty label are both false
Truthy(col) == col # None /\ Get(col) # ""

\* __reindex
Reindex(tbl, col, val, ext) ==
    LET r == IF val # None THEN SetIndex(Get(ext), Get(col))
             ELSE SetIndex(Get(tbl), Get(col))
    IN  IF r.err = "ok"
        THEN [err |-> "ok", gdf |-> Some(GeometrizeGdf(Get(r.gdf)))]
        ELSE r

\* extract()
ExtractOf(tbl, col, val, ext) ==
    IF tbl = None THEN [err |-> "NoData", gdf |-> None]
    ELSE IF Truthy(col) THEN Reindex(tbl, col, val, ext)
    ELSE [err |-> "ok", gdf |-> tbl]

\* what extract() returns in the current state
ExtractResult == ExtractOf(table, column, value, extracted)

Extract ==
    /\ last' = Call("extract", FALSE, ExtractResult.err)
    /\ UNCHANGED <<infile, outfile, column, value, table, extracted, dirs>>

\* ---------------------------------------------------- extract_to_file
\* __extract_to_inferred_file: the pandas writer chosen by the suffix
InferredWriter(ext) ==
    CASE ext = ".csv" -> "csv"
      [] ext \in {".pkl", ".bz2", ".zip", ".gzip", ".xz"} -> "pickle"
      [] ext = ".xlsx" -> "excel"
      [] ext = ".html" -> "html"
      [] ext = ".json" -> "json"
      [] ext = ".tex" -> "latex"
      [] ext = ".md" -> "markdown"
      [] OTHER -> "string"

\* the writer extract_to_file picks
Writer(isGeometric, ext, driver) ==
    IF isGeometric /\ ext = ".shp" THEN "ESRI Shapefile"
    ELSE IF isGeometric /\ ext = ".geojson" THEN "GeoJSON"
    ELSE IF isGeometric /\ ext = ".gpkg" THEN "GPKG"
    ELSE IF isGeometric /\ driver # None THEN Get(driver)
    ELSE InferredWriter(ext)

\* DataFrame.drop(columns='geometry')
DropGeometry(df) ==
    [df EXCEPT !.cols = @ \ {"geometry"},
               !.rows = [i \in 1..Len(df.rows) |->
                           [df.rows[i] EXCEPT !.cells =
                               [c \in df.cols \ {"geometry"} |->
                                   df.rows[i].cells[c]]]]]

\* why writing filename fails, or "ok": the directory must exist and the
\* file must be writable
WriteOutcome(fsdirs, filename) ==
    IF filename.dir \notin fsdirs THEN "NoDirectory"
    ELSE IF filename.stem = "locked" THEN "PermissionDenied"
    ELSE "ok"

\* os.makedirs with exist_ok=True: an existing directory is no error
MakedirsExistOk(fsdirs, stored) ==
    IF stored = None THEN [ok |-> FALSE, dirs |-> fsdirs]
    ELSE [ok |-> TRUE, dirs |-> fsdirs \cup Prefixes(Parent(Get(stored)))]

\* os.makedirs(self.__outfile.parent): fails when no destination is stored
\* and when the directory exists
Makedirs(fsdirs, stored) ==
    IF stored = None THEN [ok |-> FALSE, dirs |-> fsdirs]
    ELSE IF Parent(Get(stored)) \in fsdirs THEN [ok |-> FALSE, dirs |-> fsdirs]
    ELSE [ok |-> TRUE, dirs |-> fsdirs \cup Prefixes(Parent(Get(stored)))]

\* extract_to_file(outfile, driver) on the frame extract() returns, with the
\* stored destination, from directories fsdirs, nested depth calls deep: the
\* directories afterwards, the number of writes attempted, the file written
\* and how, the error raised and the cause it carries
RECURSIVE ExtractToFileOf(_, _, _, _, _, _)
ExtractToFileOf(ex, stored, arg, driver, fsdirs, depth) ==
    LET filename == IF arg = None THEN stored ELSE arg
        quiet == [dirs |-> fsdirs, attempts |-> 0,
                  err |-> "ok", cause |-> "", wrote |-> None]
    IN
    IF depth > MaxDepth
    THEN [quiet EXCEPT !.err = "RecursionError", !.cause = "RecursionError"]
    ELSE IF ex.err # "ok"
    THEN [quiet EXCEPT !.err = ex.err, !.cause = ex.err]
    ELSE IF filename = None
    THEN quiet
    ELSE
      LET gdf == Get(ex.gdf)
          isGeometric == HasSpatialData(gdf)
          ext == GetExtension(Get(filename))
          e == WriteOutcome(fsdirs, Get(filename))
          content == [file |-> Get(filename),
                      writer |-> Writer(isGeometric, ext, driver),
                      cols |-> IF isGeometric THEN gdf.cols
                               ELSE DropGeometry(gdf).cols,
                      rows |-> Len(gdf.rows)]
      IN
      IF e = "ok"
      THEN [quiet EXCEPT !.attempts = 1, !.wrote = Some(content)]
      ELSE
        LET made == Makedirs(fsdirs, stored) IN
        IF ~ made.ok
        THEN [quiet EXCEPT !.attempts = 1, !.err = "ExtractionFailed",
                           !.cause = e]
        ELSE
          LET again == ExtractToFileOf(ex, stored, arg, driver, made.dirs,
                                       depth + 1)
          IN  IF again.err = "ok"
              THEN [again EXCEPT !.attempts = @ + 1]
              ELSE [again EXCEPT !.attempts = @ + 1,
                                 !.err = "ExtractionFailed", !.cause = e,
                                 !.wrote = None]

ExtractToFile(arg, driver) ==
    LET r == ExtractToFileOf(ExtractResult, outfile, arg, driver, dirs, 1)
    IN
    /\ dirs' = r.dirs
    /\ last' = [Call("extract_to_file", arg # None, r.err) EXCEPT
                   !.attempts = r.attempts, !.cause = r.cause,
                   !.wrote = r.wrote]
    /\ UNCHANGED <<infile, outfile, column, value, table, extracted>>

\* ------------------------------------------------------ list_columns
\* a list_columns() that answers an empty listing when nothing is loaded
ListColumnsOfNothing(tbl) ==
    IF tbl = None THEN [err |-> "ok", ret |-> Some({})]
    ELSE [err |-> "ok", ret |-> Some(Get(tbl).cols)]

\* list_columns(): the labels, without "geometry" when no row has a geometry
ListColumnsOf(tbl) ==
    IF tbl = None THEN [err |-> "NoData", ret |-> None]
    ELSE IF HasSpatialData(Get(tbl))
    THEN [err |-> "ok", ret |-> Some(Get(tbl).cols)]
    ELSE [err |-> "ok", ret |-> Some(Get(tbl).cols \ {"geometry"})]

ListColumns ==
    LET r == ListColumnsOf(table) IN
    /\ last' = [Call("list_columns", FALSE, r.err) EXCEPT !.ret = r.ret]
    /\ UNCHANGED <<infile, outfile, column, value, table, extracted, dirs>>

\* ------------------------------------------------------- list_values
\* Series.values: the cells under a label, row by row
ColumnValues(df, col) == [i \in 1..Len(df.rows) |-> df.rows[i].cells[col]]

\* Series.unique(): every value once, in the order of first appearance
Unique(s) ==
    SelectAt(s, {i \in 1..Len(s) : \A j \in 1..(i - 1) : s[j] # s[i]}, 1)

\* a list_values() that looks at the stored column before its argument
ListValuesStoredFirst(colArg, unique, tbl, curColumn) ==
    LET label == IF curColumn # None THEN curColumn ELSE colArg IN
    IF tbl = None THEN [err |-> "NoData", ret |-> None]
    ELSE IF label = None THEN [err |-> "NoColumn", ret |-> None]
    ELSE IF Get(label) \notin Get(tbl).cols
    THEN [err |-> "ColumnNotFound", ret |-> None]
    ELSE [err |-> "ok",
          ret |-> Some(IF unique
                       THEN Unique(ColumnValues(Get(tbl), Get(label)))
                       ELSE ColumnValues(Get(tbl), Get(label)))]

\* list_values(column, unique)
ListValuesOf(colArg, unique, tbl, curColumn) ==
    IF tbl = None THEN [err |-> "NoData", ret |-> None]
    ELSE IF colArg # None
    THEN IF Get(colArg) \notin Get(tbl).cols
         THEN [err |-> "ColumnNotFound", ret |-> None]
         ELSE [err |-> "ok",
               ret |-> Some(IF unique
                            THEN Unique(ColumnValues(Get(tbl), Get(colArg)))
                            ELSE ColumnValues(Get(tbl), Get(colArg)))]
    ELSE IF curColumn # None
    THEN IF Get(curColumn) \notin Get(tbl).cols
         THEN [err |-> "KeyError", ret |-> None]
         ELSE [err |-> "ok",
               ret |-> Some(IF unique
                            THEN Unique(ColumnValues(Get(tbl), Get(curColumn)))
                            ELSE ColumnValues(Get(tbl), Get(curColumn)))]
    ELSE [err |-> "NoColumn", ret |-> None]

ListValues(colArg, unique) ==
    LET r == ListValuesOf(colArg, unique, table, column) IN
    /\ last' = [Call("list_values", colArg # None, r.err) EXCEPT !.ret = r.ret]
    /\ UNCHANGED <<infile, outfile, column, value, table, extracted, dirs>>

\* ------------------------------------------------------- constructor
\* the object a run of __sanitize_init leaves, given the outcomes a, b, d of
\* the infile, column and value assignments: the first that raised ended it
\* with AttributeError (cause: the setter's own error)
Sanitized(a, f, b, d) ==
    LET fresh == [err |-> "ok", cause |-> "", infile |-> None,
                  outfile |-> None, column |-> None, value |-> None,
                  table |-> None, extracted |-> None]
    IN
    IF a.err # "ok"
    THEN [fresh EXCEPT !.err = "AttributeError", !.cause = a.err,
                       !.infile = a.infile, !.table = a.table]
    ELSE IF b.err # "ok"
    THEN [fresh EXCEPT !.err = "AttributeError", !.cause = b.err,
                       !.infile = a.infile, !.table = a.table,
                       !.outfile = f]
    ELSE IF d.err # "ok"
    THEN [fresh EXCEPT !.err = "AttributeError", !.cause = d.err,
                       !.infile = a.infile, !.table = a.table,
                       !.outfile = f, !.column = b.column,
                       !.value = d.value, !.extracted = d.extracted]
    ELSE [fresh EXCEPT !.infile = a.infile, !.table = a.table,
                       !.outfile = f, !.column = b.column,
                       !.value = d.value, !.extracted = d.extracted]

\* the element of a one-element set
Only(S) == CHOOSE x \in S : TRUE

\* __sanitize_init on the attributes __init__ has just set to None: the four
\* assignments in turn, each on what the ones before it left
SanitizeInit(o, f, c, v) ==
    Only({ Only({ Only({ Sanitized(a, f, b, d) :
                d \in {ValueSetter(v, a.table, b.column, b.value, None)} }) :
             b \in {ColumnSetter(c, a.table, None, None)} }) :
          a \in {InfileSetter(o, None, None)} })

\* ExtractTable(infile, outfile, column, value): Init is the object as
\* __init__ has it before __sanitize_init, and this is __sanitize_init. When
\* it raises, the attributes are those the same assignments leave on an
\* object built without arguments.
Construct(o, f, c, v) ==
    /\ last.op = "init"
    /\ \E k \in {SanitizeInit(o, f, c, v)} :
          /\ infile' = k.infile
          /\ outfile' = k.outfile
          /\ column' = k.column
          /\ value' = k.value
          /\ table' = k.table
          /\ extracted' = k.extracted
          /\ last' = [Call("construct", o.kind # "none", k.err) EXCEPT
                         !.cause = k.cause]
    /\ UNCHANGED dirs

\* --------------------------------------------------------------- main
\* what the parser hands over: a path, -o, -c, and -v with one value or more
CliValueArgs == {None} \cup {Some(ListOf(l)) : l \in Lists \ {<<>>}}

\* sys.exit(arg): without an argument the exit status is zero
SysExit(arg) == IF arg = None THEN 0 ELSE Get(arg)

\* what main() ends with, given the object k the constructor left and the
\* outcome w of extract_to_file(): what was raised is printed, and the
\* process leaves through sys.exit()
MainOutcome(k, w, fsdirs) ==
    IF k.err # "ok"
    THEN [obj |-> k, dirs |-> fsdirs, err |-> k.err, cause |-> k.cause,
          attempts |-> 0, wrote |-> None, printed |-> Some(k.err),
          exit |-> Some(SysExit(None))]
    ELSE [obj |-> k, dirs |-> w.dirs, err |-> w.err, cause |-> w.cause,
          attempts |-> w.attempts, wrote |-> w.wrote,
          printed |-> IF w.err # "ok" THEN Some(w.err) ELSE None,
          exit |-> Some(SysExit(None))]

\* main(): build the object, then write its extraction
MainOf(p, f, c, v, fsdirs) ==
    Only({ Only({ MainOutcome(k, w, fsdirs) :
             w \in {ExtractToFileOf(ExtractOf(k.table, k.column, k.value,
                                              k.extracted),
                                    k.outfile, None, None, fsdirs, 1)} }) :
          k \in {SanitizeInit(PathOrigin(p), f, c, v)} })

\* one run of the script, from the start of the process to its exit
Main(p, f, c, v) ==
    /\ last.op = "init"
    /\ \E r \in {MainOf(p, f, c, v, dirs)} :
          /\ infile' = r.obj.infile
          /\ outfile' = r.obj.outfile
          /\ column' = r.obj.column
          /\ value' = r.obj.value
          /\ table' = r.obj.table
          /\ extracted' = r.obj.extracted
          /\ dirs' = r.dirs
          /\ last' = [Call("main", TRUE, r.err) EXCEPT
                         !.cause = r.cause, !.attempts = r.attempts,
                         !.wrote = r.wrote, !.printed = r.printed,
                         !.exit = r.exit]

\* ------------------------------------------------------- specification
\* every operation, from every argument
Next ==
    \/ \E o \in Origins, f \in OutfileArgs, c \in ColumnArgs, v \in ValueArgs :
          Construct(o, f, c, v)
    \/ \E o \in Origins : SetInfile(o)
    \/ \E f \in OutfileArgs : SetOutfile(f)
    \/ \E c \in ColumnArgs : SetColumn(c)
    \/ \E v \in ValueArgs : SetValue(v)
    \/ Extract
    \/ \E f \in OutfileArgs, d \in DriverArgs : ExtractToFile(f, d)
    \/ ListColumns
    \/ \E c \in ColumnArgs, u \in BOOLEAN : ListValues(c, u)

Spec == Init /\ [][Next]_vars

\* The attributes infile, column, value and the frames behind them are read
\* and written by the setters and extract() alone; the stored destination
\* and the directories are read and written by the outfile setter and
\* extract_to_file() alone, which read the attributes only through what
\* extract() returns.  The two halves are explored separately.

\* the attribute half: the setters of infile, column and value, and extract()
NextAttrs ==
    \/ \E o \in Origins, c \in ColumnArgs, v \in ValueArgs :
          Construct(o, None, c, v)
    \/ \E o \in Origins : SetInfile(o)
    \/ \E c \in ColumnArgs : SetColumn(c)
    \/ \E v \in ValueArgs : SetValue(v)
    \/ Extract
    \/ \E c \in ColumnArgs, u \in BOOLEAN : ListValues(c, u)

SpecAttrs == Init /\ [][NextAttrs]_vars

\* the file half: the setters with scalar values only, and what reads the
\* table or writes files
ScalarArgs == {None} \cup {Some(Scalar(v)) : v \in Vals}

NextFiles ==
    \/ \E o \in Origins : SetInfile(o)
    \/ \E f \in OutfileArgs : SetOutfile(f)
    \/ \E c \in ColumnArgs : SetColumn(c)
    \/ \E v \in ScalarArgs : SetValue(v)
    \/ Extract
    \/ \E f \in OutfileArgs, d \in DriverArgs : ExtractToFile(f, d)
    \/ ListColumns

SpecFiles == Init /\ [][NextFiles]_vars

\* the command line: every run of the script
CliPaths == {InCsv, Missing, DataZip, BadZip}

NextMain ==
    \E p \in CliPaths, f \in OutfileArgs, c \in ColumnArgs,
       v \in CliValueArgs : Main(p, f, c, v)

SpecMain == Init /\ [][NextMain]_vars

\* --------------------------------------------------------------- claims
\* the positions of the rows whose entry under col equals a scalar value or
\* is an element of a list value
Matching(df, col, val) ==
    {i \in 1..Len(df.rows) :
        IF val.kind = "scalar" THEN df.rows[i].cells[col] = val.v[1]
        ELSE df.rows[i].cells[col] \in Range(val.v)}

ValidationErrors == {"ColumnNotFound", "NoTable", "NoColumn", "NoMatch"}

\* C1: a column or value assignment that fails validation leaves table, column
\* and value as they were, and extract() returns afterwards what it returned
\* before the call.
C1_FailedSetterKeepsState ==
    [][(last'.op \in {"column", "value"} /\ last'.err \in ValidationErrors)
          => /\ table' = table
             /\ column' = column
             /\ value' = value
             /\ ExtractResult' = ExtractResult]_vars

\* C2: once a table is loaded, from a path or from a table in memory, every
\* assignment of a non-null origin to infile fails with the already-loaded
\* error and leaves the table as it was.
C2_TableSetAtMostOnce ==
    [][\A o \in Origins :
          (last'.op = "infile" /\ o.kind # "none" /\ table # None
              /\ SetInfile(o))
             => (last'.err = "AlreadySet" /\ table' = table)]_vars

\* what extract() has to return for table df indexed by col: the rows at the
\* positions keep, in order, each with its col entry as index entry and its
\* other cells
IndexedRows(gdf, df, col, keep) ==
    LET want == SelectAt(df.rows, keep, 1) IN
    /\ gdf.index = Some(col)
    /\ Len(gdf.rows) = Len(want)
    /\ \A i \in 1..Len(want) :
          /\ gdf.rows[i].idx = Some(want[i].cells[col])
          /\ \A k \in df.cols \ {col} : gdf.rows[i].cells[k] = want[i].cells[k]

\* C3: assigning to column a label C of the loaded table succeeds from every
\* state, stores C, clears value, and extract() then returns all rows of the
\* table, indexed by C.
C3_SetColumnThenExtract ==
    [][\A c \in ColumnArgs :
          (last'.op = "column" /\ c # None /\ table # None
              /\ Get(c) \in Get(table).cols /\ SetColumn(c))
             => /\ last'.err = "ok"
                /\ column' = c
                /\ value' = None
                /\ ExtractResult'.err = "ok"
                /\ IndexedRows(Get(ExtractResult'.gdf), Get(table), Get(c),
                               1..Len(Get(table).rows))]_vars

\* C4: assigning to value a scalar or list that matches no row of the loaded
\* table under the current column fails with the no-match error and leaves
\* value as it was.
C4_NoMatchKeepsValue ==
    [][\A v \in ValueArgs :
          (last'.op = "value" /\ v # None /\ table # None /\ column # None
              /\ Get(column) \in Get(table).cols
              /\ Matching(Get(table), Get(column), Get(v)) = {}
              /\ SetValue(v))
             => (last'.err = "NoMatch" /\ value' = value)]_vars

\* C4 witness: a no-match assignment was rejected while an earlier value was set
C4_Witness ==
    last.op = "value" /\ last.err = "NoMatch" /\ value # None

\* C5: when a successful assignment of a label C to column is followed by a
\* successful assignment of V to value, extract() returns exactly the rows of
\* the table whose C entry equals V (scalar) or is an element of V (list), in
\* order and indexed by C.
C5_ExtractAfterColumnAndValue ==
    [][\A v \in ValueArgs :
          (last.op = "column" /\ last.given /\ last.err = "ok"
              /\ last'.op = "value" /\ last'.err = "ok" /\ v # None
              /\ SetValue(v))
             => /\ ExtractResult'.err = "ok"
                /\ IndexedRows(Get(ExtractResult'.gdf), Get(table), Get(column),
                               Matching(Get(table), Get(column), Get(v)))]_vars

\* C6: with a table and a column, assigning a list to value succeeds exactly
\* when some element of the list occurs in the column.
C6_ListSucceedsOnAnyMatch ==
    [][\A v \in ValueArgs :
          (last'.op = "value" /\ v # None /\ Get(v).kind = "list"
              /\ table # None /\ column # None
              /\ Get(column) \in Get(table).cols /\ SetValue(v))
             => (last'.err = "ok"
                   <=> Matching(Get(table), Get(column), Get(v)) # {})]_vars

\* C7: whenever column is set, it is a label of the loaded table.
C7_ColumnNamesAColumn ==
    column # None => (table # None /\ Get(column) \in Get(table).cols)

\* C8: assigning a non-null value without a table or without a column fails
\* with the precondition error and leaves value as it was; a non-null value
\* is accepted only when a table and a column are present.
C8_ValueNeedsTableAndColumn ==
    [][\A v \in ValueArgs :
          (last'.op = "value" /\ v # None /\ SetValue(v))
             => /\ (table = None \/ column = None)
                     => (last'.err \in {"NoTable", "NoColumn"} /\ value' = value)
                /\ last'.err = "ok" => (table # None /\ column # None)]_vars

\* C8 witness: a value was rejected on a loaded table for want of a column
C8_Witness ==
    last.op = "value" /\ last.err = "NoColumn" /\ table # None /\ value = None

\* the destination a call writes to: the argument, or else the stored one
Effective(arg, stored) == IF arg = None THEN stored ELSE arg

\* C9: when the directory of the effective destination does not exist (and
\* the file is otherwise writable), extract_to_file fails once, creates that
\* directory with its parents, succeeds on the second write and leaves the
\* file written.
C9_MissingDirectoryIsCreated ==
    [][\A f \in OutfileArgs, d \in DriverArgs :
          LET eff == Effective(f, outfile) IN
          (last'.op = "extract_to_file" /\ ExtractResult.err = "ok"
              /\ eff # None /\ Get(eff).dir \notin dirs
              /\ Get(eff).stem # "locked" /\ ExtractToFile(f, d))
             => /\ last'.err = "ok"
                /\ last'.attempts = 2
                /\ Prefixes(Get(eff).dir) \subseteq dirs'
                /\ last'.wrote # None
                /\ Get(last'.wrote).file = Get(eff)]_vars

\* C10: extract_to_file ends within the nesting the model follows and writes
\* at most twice; a second write happens only after the first failed and the
\* directory tree of the stored destination was created by this call; and a
\* call whose first write failed and that does not succeed ends with the
\* extraction error carrying the cause of that first failure.
C10_AtMostOneRetry ==
    [][\A f \in OutfileArgs, d \in DriverArgs :
          LET eff == Effective(f, outfile) IN
          (last'.op = "extract_to_file" /\ ExtractToFile(f, d))
             => /\ last'.err # "RecursionError"
                /\ last'.attempts <= 2
                /\ last'.attempts = 2
                     => /\ WriteOutcome(dirs, Get(eff)) # "ok"
                        /\ Parent(Get(outfile)) \notin dirs
                        /\ dirs' = dirs \cup Prefixes(Parent(Get(outfile)))
                /\ last'.attempts < 2 => dirs' = dirs
                /\ (ExtractResult.err = "ok" /\ eff # None
                       /\ WriteOutcome(dirs, Get(eff)) # "ok"
                       /\ last'.err # "ok")
                     => /\ last'.err = "ExtractionFailed"
                        /\ last'.cause = WriteOutcome(dirs, Get(eff))]_vars

\* C10 witness: the retry failed for another reason than the first write did,
\* and the error carries the first one
C10_Witness ==
    /\ last.op = "extract_to_file"
    /\ last.attempts = 2
    /\ last.err = "ExtractionFailed"
    /\ last.cause = "NoDirectory"
    /\ outfile # None
    /\ WriteOutcome(dirs, Get(outfile)) = "PermissionDenied"

\* C11: with no table loaded, extract(), extract_to_file() and
\* list_columns() fail with the no-data error, write nothing, create no
\* directory and leave infile, outfile, column and value as they were.
C11_NoDataWithoutTable ==
    [][(table = None
          /\ last'.op \in {"extract", "extract_to_file", "list_columns"})
          => /\ last'.err = "NoData"
             /\ last'.attempts = 0
             /\ last'.wrote = None
             /\ last'.ret = None
             /\ dirs' = dirs
             /\ <<infile, outfile, column, value, table>>'
                   = <<infile, outfile, column, value, table>>]_vars

\* C11 witness: extract_to_file with a destination was refused for want of a
\* table
C11_Witness ==
    /\ table = None
    /\ last.op = "extract_to_file"
    /\ last.err = "NoData"
    /\ (last.given \/ outfile # None)

\* the plain files an archive listing leads to, depth first: a listed
\* archive stands for the files of its own listing
RECURSIVE Leaves(_, _)
Leaves(files, i) ==
    IF i > Len(files) THEN <<>>
    ELSE (IF GetExtension(files[i]) = ".zip"
          THEN Leaves(Unzip(files[i]), 1)
          ELSE <<files[i]>>) \o Leaves(files, i + 1)

\* the first of these files that loads when read on its own
FirstLoading(leaves) ==
    LET good == {i \in 1..Len(leaves) : ReadFile(leaves[i]).ok} IN
    IF good = {} THEN None
    ELSE Some(leaves[CHOOSE i \in good : \A j \in good : i <= j])

ZipPaths == {DataZip, BadZip}

\* C12: loading an archive adopts the name and table of the first listed
\* file, depth first through listed archives, that loads on its own; when
\* none loads the assignment fails with the not-found error and infile and
\* table stay as they were.
C12_ZipAdoptsFirstLoadableMember ==
    [][\A p \in ZipPaths :
          (last'.op = "infile" /\ infile = None /\ SetInfile(PathOrigin(p)))
             => LET m == FirstLoading(Leaves(Unzip(p), 1)) IN
                IF m # None
                THEN /\ last'.err = "ok"
                     /\ infile' = m
                     /\ table' = ReadFile(Get(m)).gdf
                ELSE /\ last'.err = "FileNotFound"
                     /\ infile' = infile
                     /\ table' = table]_vars

\* C12 witness: the archive was loaded; its table is that of the file in the
\* listed inner archive, which comes after two entries that do not load and
\* before one that would
C12_Witness ==
    /\ last.op = "infile"
    /\ last.err = "ok"
    /\ infile = Some(ZipShp)
    /\ table = Some(GeometrizeGdf(RawB))
    /\ Len(Leaves(Unzip(DataZip), 1)) = 4

\* C13: on a loaded table list_values answers from its argument when one is
\* given, whatever column is stored, and fails with the column-not-found
\* error when the table has no such column; without an argument it answers
\* from the stored column, and fails with the precondition error when none
\* is stored. What it returns are the cells of every row of the loaded table
\* (each value once when unique is asked), and it changes no attribute.
C13_ListValuesResolution ==
    [][\A c \in ColumnArgs, u \in BOOLEAN :
          (last'.op = "list_values" /\ table # None /\ ListValues(c, u))
             => LET used == IF c # None THEN c ELSE column
                    full == [i \in 1..Len(Get(table).rows) |->
                                Get(table).rows[i].cells[Get(used)]]
                    ret  == Get(last'.ret)
                IN
                /\ <<infile, outfile, column, value, table, extracted, dirs>>'
                      = <<infile, outfile, column, value, table, extracted,
                          dirs>>
                /\ IF used = None THEN last'.err = "NoColumn"
                   ELSE IF Get(used) \notin Get(table).cols
                   THEN last'.err = IF c # None THEN "ColumnNotFound"
                                    ELSE "KeyError"
                   ELSE /\ last'.err = "ok"
                        /\ last'.ret # None
                        /\ ~ u => ret = full
                        /\ u => /\ Range(ret) = Range(full)
                                /\ \A i, j \in 1..Len(ret) :
                                      ret[i] = ret[j] => i = j]_vars

\* C13 witness: with "state" stored and a filter that keeps two of the three
\* rows, list_values was asked for another column and answered with that
\* column's cells over all three rows
C13_Witness ==
    /\ last.op = "list_values"
    /\ last.given
    /\ column = Some("state")
    /\ value # None
    /\ Len(Get(extracted).rows) = 2
    /\ last.ret = Some(<<"NY", "CA", "TX">>)

\* C14: a run of the script whose construction or extract_to_file failed
\* has printed the error and ended with a non-zero exit status, and a run
\* that ended with status zero had no failure.
C14_FailureExitsNonZero ==
    last.op = "main"
       => /\ last.err # "ok" => (last.printed # None /\ Get(last.exit) # 0)
          /\ Get(last.exit) = 0 => last.err = "ok"

\* C15: assigning None to column or to value raises nothing and changes
\* nothing, whether a table is loaded or not: every attribute, the cached
\* subset and what extract() returns stay as they were; and a stored value
\* becomes None only through a successful assignment of a column.
C15_NullAssignmentsChangeNothing ==
    [][/\ (last'.op \in {"column", "value"} /\ ~ last'.given)
             => /\ last'.err = "ok"
                /\ <<infile, outfile, column, value, table, extracted, dirs>>'
                      = <<infile, outfile, column, value, table, extracted,
                          dirs>>
                /\ ExtractResult' = ExtractResult
       /\ (value # None /\ value' = None)
             => (last'.op = "column" /\ last'.given /\ last'.err = "ok")
      ]_vars

\* C15 witness: None was assigned to column while a filter was active, and
\* the filter is still there
C15_Witness ==
    /\ last.op = "column"
    /\ ~ last.given
    /\ last.err = "ok"
    /\ table # None
    /\ column # None
    /\ value # None

\* C16: in every reachable state a stored value comes with a loaded table,
\* a stored column of that table, and a cached subset that is not empty and
\* holds only rows of the loaded table whose cell under the stored column
\* satisfies the stored value.
C16_ValueHasItsSubset ==
    value # None
       => /\ table # None
          /\ column # None
          /\ extracted # None
          /\ Get(extracted).rows # <<>>
          /\ Get(column) \in Get(table).cols
          /\ \A i \in 1..Len(Get(extracted).rows) :
                \E j \in Matching(Get(table), Get(column), Get(value)) :
                   Get(extracted).rows[i] = Get(table).rows[j]

====
